---- MODULE Spec2Model ----
(***************************************************************************)
(* Viewport / cursor / scroll engine of the text box widget                *)
(* (src/src/widgets/textbox.rs).                                           *)
(*                                                                         *)
(* A document is a sequence of line lengths; a cursor or a corner is a     *)
(* record [y |-> line, x |-> column].  usize arithmetic is modelled at a   *)
(* reduced width (UsizeBits): `+` and `-` wrap modulo 2^UsizeBits in a     *)
(* build without overflow checks and panic in a build with them, the       *)
(* saturating_* operations saturate.                                       *)
(***************************************************************************)
EXTENDS Integers, Sequences, FiniteSets

(* ----------------------------- bounds ---------------------------------- *)
MaxLines == 2
MaxLen == 2
MaxDim == 2
MaxCount == 1
MaxPrompt == 0
UsizeBits == 4
U16Bits == 3

(* ------------------------- usize arithmetic ---------------------------- *)
UsizeMax == 2^UsizeBits - 1

U16Max == 2^U16Bits - 1

Wrap(n) == n % (UsizeMax + 1)

InUsize(n) == n >= 0 /\ n <= UsizeMax

SatAdd(a, b) == IF a + b > UsizeMax THEN UsizeMax ELSE a + b

SatSub(a, b) == IF a < b THEN 0 ELSE a - b

SatMul(a, b) == IF a * b > UsizeMax THEN UsizeMax ELSE a * b

Min(a, b) == IF a < b THEN a ELSE b

Max(a, b) == IF a > b THEN a ELSE b

Cursor(line, col) == [y |-> line, x |-> col]

(* --------------------------- the buffer -------------------------------- *)
Docs == UNION {[1..n -> 0..MaxLen] : n \in 1..MaxLines}

LastLine(text) == Len(text) - 1

LineLen(text, line) == text[line + 1]

\* Last column a cursor may sit on: one past the end when the edit context
\* is inserting, the last character otherwise.
LastCol(text, line, insert) ==
    IF insert THEN LineLen(text, line) ELSE SatSub(LineLen(text, line), 1)

Legal(text, c, insert) ==
    /\ c.y <= LastLine(text)
    /\ c.x <= LastCol(text, c.y, insert)

LegalCursors(text) ==
    {c \in [y : 0..LastLine(text), x : 0..MaxLen] : Legal(text, c, TRUE)}

\* Editable::clamp of the buffer: legalize a cursor against real content.
clamp(text, c, insert) ==
    LET line == Min(c.y, LastLine(text))
    IN  Cursor(line, Min(c.x, LastCol(text, line, insert)))

\* Cursor::up / down / left / right
up(c, n) == [c EXCEPT !.y = SatSub(c.y, n)]

down(c, n) == [c EXCEPT !.y = SatAdd(c.y, n)]

left(c, n) == [c EXCEPT !.x = SatSub(c.x, n)]

right(c, n) == [c EXCEPT !.x = SatAdd(c.x, n)]

(* ------------------------ viewport clamping ---------------------------- *)
\* ShiftCornerAxis bringing a cursor past the window to one cell beyond the
\* window's last row or column.
ShiftCornerAxis_noplusone(cur, cor, ext) ==
    IF cur < cor THEN cur
    ELSE IF cur >= Wrap(cor + ext) THEN Wrap(cur - ext)
    ELSE cor

\* One axis of shift_corner_nowrap: cur, cor are the cursor's and the
\* corner's coordinate, ext the viewport extent on that axis.
ShiftCornerAxis(cur, cor, ext) ==
    IF cur < cor THEN cur
    ELSE IF cur >= Wrap(cor + ext) THEN Wrap(cur - ext + 1)
    ELSE cor

\* Does the arithmetic of that axis leave the usize range?
ShiftCornerAxisOvf(cur, cor, ext) ==
    /\ cur >= cor
    /\ \/ ~InUsize(cor + ext)
       \/ /\ cur >= Wrap(cor + ext)
          /\ (~InUsize(cur - ext) \/ ~InUsize(Wrap(cur - ext) + 1))

shift_corner_nowrap(cursor, corner, width, height) ==
    Cursor(ShiftCornerAxis(cursor.y, corner.y, height),
           ShiftCornerAxis(cursor.x, corner.x, width))

shift_corner_nowrap_ovf(cursor, corner, width, height) ==
    \/ ShiftCornerAxisOvf(cursor.y, corner.y, height)
    \/ ShiftCornerAxisOvf(cursor.x, corner.x, width)

\* The corner as written when shift_corner_nowrap panics: the line is
\* already set when the column's arithmetic fails.
shift_corner_nowrap_partial(cursor, corner, width, height) ==
    IF ShiftCornerAxisOvf(cursor.y, corner.y, height) THEN corner
    ELSE Cursor(ShiftCornerAxis(cursor.y, corner.y, height), corner.x)

\* shift_corner_wrap leaving the corner's column alone when it moves the
\* corner's line.
shift_corner_wrap_keepsx(cursor, corner, height) ==
    IF cursor.y < corner.y THEN Cursor(cursor.y, corner.x)
    ELSE IF cursor.y >= Wrap(corner.y + height)
         THEN Cursor(Wrap(cursor.y - height + 1), corner.x)
    ELSE IF cursor.y = corner.y /\ cursor.x < corner.x
         THEN Cursor(corner.y, 0)
    ELSE corner

shift_corner_wrap(cursor, corner, height) ==
    IF cursor.y < corner.y THEN Cursor(cursor.y, 0)
    ELSE IF cursor.y >= Wrap(corner.y + height)
         THEN Cursor(Wrap(cursor.y - height + 1), 0)
    ELSE IF cursor.y = corner.y /\ cursor.x < corner.x
         THEN Cursor(corner.y, 0)
    ELSE corner

shift_corner_wrap_ovf(cursor, corner, height) ==
    ShiftCornerAxisOvf(cursor.y, corner.y, height)

shift_corner(wrp, corner, cursor, width, height) ==
    IF wrp THEN shift_corner_wrap(cursor, corner, height)
    ELSE shift_corner_nowrap(cursor, corner, width, height)

shift_corner_ovf(wrp, corner, cursor, width, height) ==
    IF wrp THEN shift_corner_wrap_ovf(cursor, corner, height)
    ELSE shift_corner_nowrap_ovf(cursor, corner, width, height)

shift_corner_partial(wrp, corner, cursor, width, height) ==
    IF wrp THEN corner
    ELSE shift_corner_nowrap_partial(cursor, corner, width, height)

\* One axis of shift_cursor.
ShiftCursorAxis(cur, cor, ext) ==
    IF cur < cor THEN cor
    ELSE IF cur >= Wrap(cor + ext) THEN Wrap(cor + ext - 1)
    ELSE cur

ShiftCursorAxisOvf(cur, cor, ext) ==
    /\ cur >= cor
    /\ \/ ~InUsize(cor + ext)
       \/ /\ cur >= Wrap(cor + ext)
          /\ ~InUsize(Wrap(cor + ext) - 1)

\* shift_cursor pulling a cursor beyond the window to one past its last row
\* or column.
shift_cursor_offbyone(cursor, corner, width, height) ==
    Cursor(IF cursor.y < corner.y THEN corner.y
           ELSE IF cursor.y >= Wrap(corner.y + height)
                THEN Wrap(corner.y + height)
           ELSE cursor.y,
           IF cursor.x < corner.x THEN corner.x
           ELSE IF cursor.x >= Wrap(corner.x + width)
                THEN Wrap(corner.x + width)
           ELSE cursor.x)

shift_cursor(cursor, corner, width, height) ==
    Cursor(ShiftCursorAxis(cursor.y, corner.y, height),
           ShiftCursorAxis(cursor.x, corner.x, width))

shift_cursor_ovf(cursor, corner, width, height) ==
    \/ ShiftCursorAxisOvf(cursor.y, corner.y, height)
    \/ ShiftCursorAxisOvf(cursor.x, corner.x, width)

(* ------------------------------ state ---------------------------------- *)
VARIABLES
    text,         \* the buffer's content: sequence of line lengths
    leader,       \* the leader cursor of the view's cursor group
    corner,       \* viewctx.corner
    dimensions,   \* viewctx.dimensions: [width, height]
    wrap,         \* viewctx.wrap
    term_area,    \* term_area: [x, y, width, height]
    term_cursor,  \* term_cursor: [x, y]
    arith,        \* "ok", or "panicked": an overflow check aborted the run
    other,        \* the second view on the same buffer, once dup has made it
    last          \* the operation that has just completed, with its
                  \* arguments and its result, until its caller has taken
                  \* the result

vars == <<text, leader, corner, dimensions, wrap, term_area, term_cursor,
          arith, other, last>>

Dirs == {"Up", "Down", "Left", "Right"}

Sizes == {"Cell", "HalfPage", "Page"}

Positions == {"Beginning", "Middle", "End"}

Axes == {"Horizontal", "Vertical"}

Counts == (0..MaxCount) \cup {UsizeMax}

Rect(ax, ay, w, h) == [y |-> ay, x |-> ax, width |-> w, height |-> h]

\* An operation and its arguments: a and b are its two enumerated arguments,
\* n its resolved count and insert the mode of its edit context; res is the
\* EditResult it returns ("Ok" also for the operations that return nothing)
\* and ret the text it returns, for the one that returns a text.
Op(name, a, b) ==
    [n |-> 0, a |-> a, b |-> b, insert |-> FALSE, op |-> name,
     res |-> "Ok", ret |-> <<>>, area |-> Rect(0, 0, 0, 0)]

\* The fields of a view: its cursor group's leader, its viewport context and
\* its terminal state.  `live` tells whether the view exists.
View(lv, ldr, cor, dims, wrp, area, tc) ==
    [corner |-> cor, leader |-> ldr, dimensions |-> dims, wrap |-> wrp,
     term_area |-> area, term_cursor |-> tc, live |-> lv]

NoView ==
    View(FALSE, Cursor(0, 0), Cursor(0, 0), [width |-> 0, height |-> 0],
         TRUE, Rect(0, 0, 0, 0), [y |-> 0, x |-> 0])

\* TextBoxState::new over a buffer holding any document, leader at (0,0).
Init ==
    /\ text \in Docs
    /\ leader = Cursor(0, 0)
    /\ corner = Cursor(0, 0)
    /\ dimensions = [width |-> 0, height |-> 0]
    /\ wrap = TRUE
    /\ term_area = Rect(0, 0, 0, 0)
    /\ term_cursor = [y |-> 0, x |-> 0]
    /\ arith = "ok"
    /\ other = NoView
    /\ last = Op("new", "-", "-")

Idle == Op("-", "-", "-")

\* The view takes a call when the previous one has returned and no panic has
\* aborted the run (every operation runs to completion within one call).
Running == arith # "panicked" /\ last = Idle

\* How the arithmetic of an operation ends: when it overflowed (ovf), a build
\* with overflow checks panics and one without goes on with the wrapped value.
Outcomes(ovf) == IF ovf THEN {"ok", "panicked"} ELSE {"ok"}

(* ---------------------------- operations ------------------------------- *)
set_wrap(w) ==
    /\ Running
    /\ wrap' = w
    /\ last' = Op("set_wrap", "-", "-")
    /\ UNCHANGED <<text, leader, corner, dimensions, term_area, term_cursor,
                   arith, other>>

set_term_info(area) ==
    /\ Running
    /\ dimensions' = [width |-> area.width, height |-> area.height]
    /\ term_area' = area
    /\ last' = Op("set_term_info", "-", "-")
    /\ UNCHANGED <<text, leader, corner, wrap, term_cursor, arith, other>>

\* ScrollDelta with a multiplication that wraps around.
ScrollDelta_wrapping(size, count, extent) ==
    CASE size = "Cell" -> count
      [] size = "HalfPage" -> Wrap(count * extent) \div 2
      [] size = "Page" -> Wrap(count * extent)

ScrollDelta(size, count, extent) ==
    CASE size = "Cell" -> count
      [] size = "HalfPage" -> SatMul(count, extent) \div 2
      [] size = "Page" -> SatMul(count, extent)

\* The corner after step (a) of dirscroll.
DirMoved(cor, dir, wrp, rows, cols) ==
    CASE dir = "Up" -> up(cor, rows)
      [] dir = "Down" -> down(cor, rows)
      [] dir = "Left" /\ ~wrp -> left(cor, cols)
      [] dir = "Right" /\ ~wrp -> right(cor, cols)
      [] OTHER -> cor

\* What dirscroll computes from text t, leader ldr, corner cor, dimensions
\* dims and wrap flag wrp: the corner and the leader it ends with, whether its
\* arithmetic overflowed, and the corner as written when that panics.
DirScrollEnd(t, ldr, cor, dims, wrp, dir, size, count, insert) ==
    LET height == dims.height
        width == dims.width
        rows == ScrollDelta(size, count, height)
        cols == ScrollDelta(size, count, width)
        moved == DirMoved(cor, dir, wrp, rows, cols)
        ovf1 == shift_cursor_ovf(ldr, moved, width, height)
        cursor == clamp(t, shift_cursor(ldr, moved, width, height), insert)
        ovf2 == shift_corner_ovf(wrp, moved, cursor, width, height)
    IN  [corner |-> shift_corner(wrp, moved, cursor, width, height),
         leader |-> cursor,
         ovf |-> ovf1 \/ ovf2,
         partial |-> IF ovf1 THEN moved
                     ELSE shift_corner_partial(wrp, moved, cursor,
                                               width, height)]

dirscroll(dir, size, count, insert) ==
    LET end == DirScrollEnd(text, leader, corner, dimensions, wrap,
                            dir, size, count, insert)
    IN  /\ Running
        /\ \E out \in Outcomes(end.ovf) :
              /\ arith' = out
              /\ IF out = "panicked"
                 THEN corner' = end.partial /\ leader' = leader
                 ELSE corner' = end.corner /\ leader' = end.leader
        /\ last' = [Op("dirscroll", dir, size) EXCEPT !.n = count,
                                                   !.insert = insert]
        /\ UNCHANGED <<text, dimensions, wrap, term_area, term_cursor,
                       other>>

\* PosOffset taking the whole extent, not half of it, for Middle.
PosOffset_fullextent(pos, c, extent) ==
    CASE pos = "Beginning" -> c
      [] pos = "Middle" -> SatSub(SatAdd(c, 1), extent)
      [] pos = "End" -> SatSub(SatAdd(c, 1), extent)

\* The corner coordinate that puts coordinate c at position pos of a
\* viewport of the given extent.
PosOffset(pos, c, extent) ==
    CASE pos = "Beginning" -> c
      [] pos = "Middle" -> SatSub(SatAdd(c, 1), extent \div 2)
      [] pos = "End" -> SatSub(SatAdd(c, 1), extent)

\* CursorPosEnd re-anchoring the column in wrap mode as it does without wrap.
CursorPosEnd_wraphorizontal(ldr, cor, dims, wrp, pos, axis) ==
    LET width == dims.width
        height == dims.height
        shifted == shift_corner(wrp, cor, ldr, width, height)
    IN  [corner |->
            IF axis = "Horizontal"
            THEN [shifted EXCEPT !.x = PosOffset(pos, ldr.x, width)]
            ELSE [shifted EXCEPT !.y = PosOffset(pos, ldr.y, height)],
         ovf |-> shift_corner_ovf(wrp, cor, ldr, width, height),
         partial |-> shift_corner_partial(wrp, cor, ldr, width, height)]

\* CursorPosEnd taking the offsets from the clamped corner's coordinate, not
\* from the cursor's.
CursorPosEnd_fromcorner(ldr, cor, dims, wrp, pos, axis) ==
    LET width == dims.width
        height == dims.height
        shifted == shift_corner(wrp, cor, ldr, width, height)
    IN  IF axis = "Horizontal" /\ wrp
        THEN [corner |-> cor, ovf |-> FALSE, partial |-> cor]
        ELSE [corner |->
                 IF axis = "Horizontal"
                 THEN [shifted EXCEPT !.x = PosOffset(pos, shifted.x, width)]
                 ELSE [shifted EXCEPT !.y = PosOffset(pos, shifted.y, height)],
              ovf |-> shift_corner_ovf(wrp, cor, ldr, width, height),
              partial |-> shift_corner_partial(wrp, cor, ldr, width, height)]

\* What cursorpos computes from leader ldr, corner cor, dimensions dims and
\* wrap flag wrp: the corner it ends with, whether its arithmetic overflowed,
\* and the corner as written when that panics.
CursorPosEnd(ldr, cor, dims, wrp, pos, axis) ==
    LET width == dims.width
        height == dims.height
        shifted == shift_corner(wrp, cor, ldr, width, height)
    IN  IF axis = "Horizontal" /\ wrp
        THEN [corner |-> cor, ovf |-> FALSE, partial |-> cor]
        ELSE [corner |->
                 IF axis = "Horizontal"
                 THEN [shifted EXCEPT !.x = PosOffset(pos, ldr.x, width)]
                 ELSE [shifted EXCEPT !.y = PosOffset(pos, ldr.y, height)],
              ovf |-> shift_corner_ovf(wrp, cor, ldr, width, height),
              partial |-> shift_corner_partial(wrp, cor, ldr, width, height)]

\* cursorpos committing the leader pulled back into the re-anchored window,
\* as dirscroll does.
cursorpos_pulls(pos, axis) ==
    LET end == CursorPosEnd(leader, corner, dimensions, wrap, pos, axis)
    IN  /\ Running
        /\ \E out \in Outcomes(end.ovf) :
              /\ arith' = out
              /\ corner' = IF out = "panicked" THEN end.partial
                           ELSE end.corner
        /\ leader' = clamp(text, shift_cursor(leader, end.corner,
                               dimensions.width, dimensions.height), TRUE)
        /\ last' = Op("cursorpos", pos, axis)
        /\ UNCHANGED <<text, dimensions, wrap, term_area, term_cursor,
                       other>>

cursorpos(pos, axis) ==
    LET end == CursorPosEnd(leader, corner, dimensions, wrap, pos, axis)
    IN  /\ Running
        /\ \E out \in Outcomes(end.ovf) :
              /\ arith' = out
              /\ corner' = IF out = "panicked" THEN end.partial
                           ELSE end.corner
        /\ last' = Op("cursorpos", pos, axis)
        /\ UNCHANGED <<text, leader, dimensions, wrap, term_area,
                       term_cursor, other>>

\* linepos jumping to line count - 1 without clamping the count to the
\* number of lines.
linepos_unclamped(pos, count) ==
    LET line == SatSub(count, 1)
        height == dimensions.height
    IN  /\ Running
        /\ leader' = Cursor(line, 0)
        /\ corner' = [corner EXCEPT !.y = PosOffset(pos, line, height)]
        /\ last' = [Op("linepos", pos, "-") EXCEPT !.n = count]
        /\ UNCHANGED <<text, dimensions, wrap, term_area, term_cursor, arith,
                       other>>

linepos(pos, count) ==
    LET max == Len(text)
        line == SatSub(Min(count, max), 1)
        height == dimensions.height
    IN  /\ Running
        /\ leader' = Cursor(line, 0)
        /\ corner' = [corner EXCEPT !.y = PosOffset(pos, line, height)]
        /\ last' = [Op("linepos", pos, "-") EXCEPT !.n = count]
        /\ UNCHANGED <<text, dimensions, wrap, term_area, term_cursor, arith,
                       other>>

\* An operation of Editable forwarded to the buffer that changes the text:
\* the text becomes any document and the leader of every cursor group stays
\* legal in it; no viewport is touched.
edit_text(t) ==
    /\ Running
    /\ text' = t
    /\ leader' = clamp(t, leader, TRUE)
    /\ other' = [other EXCEPT !.leader = clamp(t, @, TRUE)]
    /\ last' = Op("edit", "text", "-")
    /\ UNCHANGED <<corner, dimensions, wrap, term_area, term_cursor, arith>>

\* edit_motion re-clamping the corner against the leader it has moved.
edit_motion_follows(c) ==
    /\ Running
    /\ c \in LegalCursors(text)
    /\ leader' = c
    /\ corner' = shift_corner(wrap, corner, c, dimensions.width,
                              dimensions.height)
    /\ last' = Op("edit", "motion", "-")
    /\ UNCHANGED <<text, dimensions, wrap, term_area, term_cursor, arith,
                   other>>

\* An operation of Editable forwarded to the buffer that moves the leader
\* (a motion): any legal cursor; the viewport is not touched.
edit_motion(c) ==
    /\ Running
    /\ c \in LegalCursors(text)
    /\ leader' = c
    /\ last' = Op("edit", "motion", "-")
    /\ UNCHANGED <<text, corner, dimensions, wrap, term_area, term_cursor,
                   arith, other>>

\* An operation of Editable forwarded to the buffer that the buffer rejects:
\* its error is what the view returns, and nothing is changed.
edit_rejected ==
    /\ Running
    /\ last' = [Op("edit", "rejected", "-") EXCEPT !.res = "Err"]
    /\ UNCHANGED <<text, leader, corner, dimensions, wrap, term_area,
                   term_cursor, arith, other>>

\* reset_text leaving the leader where it was.
reset_text_keepscursor ==
    /\ Running
    /\ text' = <<0>>
    /\ leader' = leader
    /\ other' = [other EXCEPT !.leader = Cursor(0, 0)]
    /\ last' = [Op("reset_text", "-", "-") EXCEPT !.ret = text]
    /\ UNCHANGED <<corner, dimensions, wrap, term_area, term_cursor, arith>>

\* TextBoxState::reset_text: the buffer empties its text, puts the cursors at
\* the origin and hands back the text it held.
reset_text ==
    /\ Running
    /\ text' = <<0>>
    /\ leader' = Cursor(0, 0)
    /\ other' = [other EXCEPT !.leader = Cursor(0, 0)]
    /\ last' = [Op("reset_text", "-", "-") EXCEPT !.ret = text]
    /\ UNCHANGED <<corner, dimensions, wrap, term_area, term_cursor, arith>>

(* ----------------------------- rendering ------------------------------- *)
\* EditRope::lines_at(line, column): the lengths of the lines from `line`
\* on, the first of them cut to what follows `column`.
lines_at(t, line, column) ==
    [i \in 1..(Len(t) - line) |->
        IF i = 1 THEN SatSub(LineLen(t, line), column)
        ELSE LineLen(t, line + i - 1)]

\* EditRope::lines(line): the lengths of the lines from `line` on.
lines(t, line) == lines_at(t, line, 0)

Row(line, start, end, cursor_line) ==
    [line |-> line, end |-> end, start |-> start, cursor_line |-> cursor_line]

\* The inner loop of _render_lines_wrap over a line of length slen, from
\* offset off; acc is [rows, sawcursor].
RECURSIVE WrapSegments(_, _, _, _, _, _, _)
WrapSegments(line, slen, off, width, height, cursor, acc) ==
    IF off < slen /\ (Len(acc.rows) < height \/ ~acc.sawcursor)
    THEN LET end == Min(off + width, slen)
             cursor_line == /\ line = cursor.y
                            /\ off <= cursor.x
                            /\ cursor.x <= end
         IN  WrapSegments(line, slen, end, width, height, cursor,
                 [rows |-> Append(acc.rows, Row(line, off, end, cursor_line)),
                  sawcursor |-> acc.sawcursor \/ cursor_line])
    ELSE acc

\* The outer loop of _render_lines_wrap over the line lengths ls still to
\* come, `line` being the number of the first of them.
RECURSIVE WrapLines(_, _, _, _, _, _)
WrapLines(ls, line, width, height, cursor, acc) ==
    IF ls = <<>> \/ (Len(acc.rows) >= height /\ acc.sawcursor) THEN acc
    ELSE LET slen == Head(ls)
             segs == WrapSegments(line, slen, 0, width, height, cursor, acc)
             done == IF slen = 0
                     THEN [segs EXCEPT !.rows =
                             Append(@, Row(line, 0, 0, line = cursor.y))]
                     ELSE segs
         IN  WrapLines(Tail(ls), line + 1, width, height, cursor, done)

\* The rows _render_lines_wrap accumulates from the corner cor.
Wrapped(t, cursor, cor, width, height) ==
    WrapLines(lines_at(t, cor.y, cor.x), cor.y, width, height, cursor,
              [rows |-> <<>>, sawcursor |-> FALSE]).rows

\* The rows it keeps and draws: the last `height` of them.
WrapDrawn(t, cursor, cor, width, height) ==
    LET wrapped == Wrapped(t, cursor, cor, width, height)
    IN  IF Len(wrapped) > height
        THEN SubSeq(wrapped, Len(wrapped) - height + 1, Len(wrapped))
        ELSE wrapped

\* The corner _render_lines_wrap leaves.
WrapCorner(t, cursor, cor, width, height) ==
    LET wrapped == Wrapped(t, cursor, cor, width, height)
        first == Head(WrapDrawn(t, cursor, cor, width, height))
    IN  IF Len(wrapped) > height THEN Cursor(first.line, first.start)
        ELSE cor

\* NowrapDrawn taking a row for the cursor's only when the cursor's column is
\* right of the row's first column.
NowrapDrawn_exclusive(t, cursor, cor, height) ==
    LET ls == lines(t, cor.y)
    IN  [i \in 1..Min(height, Len(ls)) |->
            Row(cor.y + i - 1, cor.x, ls[i],
                /\ cor.y + i - 1 = cursor.y
                /\ cor.x < cursor.x
                /\ cursor.x <= ls[i])]

\* The rows _render_lines_nowrap draws from the corner cor.
NowrapDrawn(t, cursor, cor, height) ==
    LET ls == lines(t, cor.y)
    IN  [i \in 1..Min(height, Len(ls)) |->
            Row(cor.y + i - 1, cor.x, ls[i],
                /\ cor.y + i - 1 = cursor.y
                /\ cor.x <= cursor.x
                /\ cursor.x <= ls[i])]

\* The terminal cursor after drawing rows at the text area: every cursor row
\* records its cell, the last one drawn stays.
RECURSIVE TermCursor(_, _, _, _, _)
TermCursor(rows, i, cursor, area, tc) ==
    IF i > Len(rows) THEN tc
    ELSE TermCursor(rows, i + 1, cursor, area,
             IF rows[i].cursor_line
             THEN [y |-> area.y + i - 1,
                   x |-> area.x + (cursor.x - rows[i].start)]
             ELSE tc)

(* ----------------------------- highlighting ---------------------------- *)
Shapes == {"CharWise", "LineWise", "BlockWise"}

\* A selection of the cursor group: its two ends in document order and its
\* shape; `live` is FALSE when the group has no selection.
Selection(lv, a, b, shape) ==
    LET first == IF a.y < b.y \/ (a.y = b.y /\ a.x <= b.x) THEN a ELSE b
        second == IF first = a THEN b ELSE a
    IN  [live |-> lv, shape |-> shape, sb |-> first, se |-> second]

\* The selections the buffer may report for the group at a render: none, or
\* one of any shape between the leader and a legal anchor (for LineWise, of
\* which only the lines are read, an anchor at the start of any line).
Selections(t, ldr) ==
    {Selection(FALSE, ldr, ldr, "CharWise")}
        \cup {Selection(TRUE, Cursor(y, 0), ldr, "LineWise") :
                  y \in 0..LastLine(t)}
        \cup {Selection(TRUE, a, ldr, shape) :
                  a \in LegalCursors(t), shape \in Shapes \ {"LineWise"}}

\* `(hi - lo + extra).try_into().unwrap()` into a u16: "fits", or "panics" in
\* every build (the value does not fit a u16, as such or once an underflow
\* has wrapped it), or "checked": the subtraction underflows and wraps to a
\* value that fits, so only a build with overflow checks panics.
Span(lo, hi, extra) ==
    IF hi < lo
    THEN IF Wrap(hi - lo + extra) > U16Max THEN "panics" ELSE "checked"
    ELSE IF hi - lo + extra > U16Max THEN "panics" ELSE "fits"

\* _highlight_line for a row: how styling selection sel on it ends.
highlight_line(row, sel) ==
    LET line == row.line
        start == row.start
        end == row.end
        maxcol == SatSub(end, 1)
        InRange(v) == start <= v /\ v < end
    IN  IF ~(sel.live /\ sel.sb.y <= line /\ line < sel.se.y + 1) THEN "fits"
        ELSE CASE sel.shape = "CharWise" ->
                  LET x1 == IF line = sel.sb.y THEN Max(sel.sb.x, start)
                            ELSE start
                      x2 == IF line = sel.se.y THEN Min(sel.se.x, maxcol)
                            ELSE maxcol
                  IN  IF InRange(x1) /\ InRange(x2) THEN Span(x1, x2, 1)
                      ELSE "fits"
               [] sel.shape = "LineWise" -> Span(start, end, 0)
               [] sel.shape = "BlockWise" ->
                  LET lx == Min(sel.sb.x, sel.se.x)
                      rx == Max(sel.sb.x, sel.se.x)
                      x1 == Max(lx, start)
                      x2 == Min(rx, maxcol)
                  IN  IF InRange(x1) /\ InRange(x2) THEN Span(x1, x2, 1)
                      ELSE "fits"

\* No area styled.
NoArea == [width |-> 0, off |-> 0, styled |-> FALSE]

\* highlight_area taking the selection's own columns for the bounds of a
\* CharWise selection on its first and last line, without bringing them into
\* the row.
highlight_area_unclamped(row, sel) ==
    LET line == row.line
        start == row.start
        end == row.end
        maxcol == SatSub(end, 1)
        InRange(v) == start <= v /\ v < end
        Area(x1, x2) ==
            IF InRange(x1) /\ InRange(x2)
            THEN [width |-> Wrap(Wrap(x2 - x1) + 1),
                  off |-> (x1 - start) % (U16Max + 1), styled |-> TRUE]
            ELSE NoArea
    IN  IF ~(sel.live /\ sel.sb.y <= line /\ line < sel.se.y + 1) THEN NoArea
        ELSE CASE sel.shape = "CharWise" ->
                  Area(IF line = sel.sb.y THEN sel.sb.x ELSE start,
                       IF line = sel.se.y THEN sel.se.x ELSE maxcol)
               [] sel.shape = "LineWise" ->
                  [width |-> Wrap(end - start), off |-> 0, styled |-> TRUE]
               [] sel.shape = "BlockWise" ->
                  Area(Max(Min(sel.sb.x, sel.se.x), start),
                       Min(Max(sel.sb.x, sel.se.x), maxcol))

\* highlight_area taking the columns of the two ends of a BlockWise
\* selection in document order for the block's left and right column.
highlight_area_blockordered(row, sel) ==
    LET line == row.line
        start == row.start
        end == row.end
        maxcol == SatSub(end, 1)
        InRange(v) == start <= v /\ v < end
        Area(x1, x2) ==
            IF InRange(x1) /\ InRange(x2)
            THEN [width |-> Wrap(Wrap(x2 - x1) + 1),
                  off |-> (x1 - start) % (U16Max + 1), styled |-> TRUE]
            ELSE NoArea
    IN  IF ~(sel.live /\ sel.sb.y <= line /\ line < sel.se.y + 1) THEN NoArea
        ELSE CASE sel.shape = "CharWise" ->
                  Area(IF line = sel.sb.y THEN Max(sel.sb.x, start) ELSE start,
                       IF line = sel.se.y THEN Min(sel.se.x, maxcol)
                       ELSE maxcol)
               [] sel.shape = "LineWise" ->
                  [width |-> Wrap(end - start), off |-> 0, styled |-> TRUE]
               [] sel.shape = "BlockWise" ->
                  Area(Max(sel.sb.x, start), Min(sel.se.x, maxcol))

\* The area _highlight_line styles for selection sel on a row, when it does
\* not panic: its offset from the row's first cell and its width.
highlight_area(row, sel) ==
    LET line == row.line
        start == row.start
        end == row.end
        maxcol == SatSub(end, 1)
        InRange(v) == start <= v /\ v < end
        Area(x1, x2) ==
            IF InRange(x1) /\ InRange(x2)
            THEN [width |-> Wrap(Wrap(x2 - x1) + 1),
                  off |-> (x1 - start) % (U16Max + 1), styled |-> TRUE]
            ELSE NoArea
    IN  IF ~(sel.live /\ sel.sb.y <= line /\ line < sel.se.y + 1) THEN NoArea
        ELSE CASE sel.shape = "CharWise" ->
                  Area(IF line = sel.sb.y THEN Max(sel.sb.x, start) ELSE start,
                       IF line = sel.se.y THEN Min(sel.se.x, maxcol)
                       ELSE maxcol)
               [] sel.shape = "LineWise" ->
                  [width |-> Wrap(end - start), off |-> 0, styled |-> TRUE]
               [] sel.shape = "BlockWise" ->
                  Area(Max(Min(sel.sb.x, sel.se.x), start),
                       Min(Max(sel.sb.x, sel.se.x), maxcol))

\* The least element of a set of row numbers, 0 for the empty set.
FirstRow(S) == IF S = {} THEN 0 ELSE CHOOSE i \in S : \A k \in S : i <= k

\* The rows at which highlighting selection sel may panic, one per build (0:
\* it does not panic in that build).  checks tells whether a build with
\* overflow checks can have come this far.
HighlightPanicRows(rows, sel, checks) ==
    LET ends == [i \in 1..Len(rows) |-> highlight_line(rows[i], sel)]
    IN  {FirstRow({i \in 1..Len(rows) : ends[i] = "panics"})}
            \cup IF checks
                 THEN {FirstRow({i \in 1..Len(rows) : ends[i] # "fits"})}
                 ELSE {}

\* How the drawing loop over rows ends when the highlighting of row k
\* panics (k = 0: none does): the rows after row k are not drawn, and the
\* terminal cursor is the one the rows drawn have recorded.
DrawEnd(rows, cursor, area, tc, k) ==
    IF k = 0
    THEN [term_cursor |-> TermCursor(rows, 1, cursor, area, tc),
          arith |-> "ok"]
    ELSE [term_cursor |-> TermCursor(SubSeq(rows, 1, k), 1, cursor, area, tc),
          arith |-> "panicked"]

\* _render_lines into the text area: record the area, lay the text out from
\* the re-clamped corner and draw it; the selection to highlight is whatever
\* the buffer reports for the group.
render_lines(text_area) ==
    LET width == text_area.width
        height == text_area.height
        ovf == IF wrap THEN shift_corner_wrap_ovf(leader, corner, height)
               ELSE shift_corner_nowrap_ovf(leader, corner, width, height)
        shifted == IF wrap THEN shift_corner_wrap(leader, corner, height)
                   ELSE shift_corner_nowrap(leader, corner, width, height)
        drawn == IF wrap THEN WrapDrawn(text, leader, shifted, width, height)
                 ELSE NowrapDrawn(text, leader, shifted, height)
        panic_rows == UNION {HighlightPanicRows(drawn, sel, ~ovf) :
                                sel \in Selections(text, leader)}
    IN  /\ dimensions' = [width |-> width, height |-> height]
        /\ term_area' = text_area
        /\ \/ /\ ovf
              /\ arith' = "panicked"
              /\ corner' = shift_corner_partial(wrap, corner, leader,
                                                width, height)
              /\ UNCHANGED term_cursor
           \/ \E k \in panic_rows :
                 LET end == DrawEnd(drawn, leader, text_area, term_cursor, k)
                 IN  /\ arith' = end.arith
                     /\ corner' = IF wrap
                                  THEN WrapCorner(text, leader, shifted,
                                                  width, height)
                                  ELSE shifted
                     /\ term_cursor' = end.term_cursor

\* The text area of a render with a prompt of plen cells into `area`.
TextArea(area, plen) ==
    Rect(area.x + plen, area.y, SatSub(area.width, plen), area.height)

\* render recording the text area on the view before it tests that area for
\* a zero width or height.
render_recordsfirst(area, plen) ==
    LET text_area == TextArea(area, plen)
    IN  /\ Running
        /\ IF text_area.width = 0 \/ text_area.height = 0
           THEN /\ last' = [Op("render", "skipped", "-") EXCEPT
                               !.area = area, !.n = plen]
                /\ dimensions' = [width |-> text_area.width,
                                  height |-> text_area.height]
                /\ term_area' = text_area
                /\ UNCHANGED <<corner, term_cursor, arith>>
           ELSE /\ last' = [Op("render", "drawn", "-") EXCEPT
                               !.area = area, !.n = plen]
                /\ render_lines(text_area)
        /\ UNCHANGED <<text, leader, wrap, other>>

\* StatefulWidget::render with a prompt of plen cells into `area`.
render(area, plen) ==
    LET text_area == TextArea(area, plen)
    IN  /\ Running
        /\ IF text_area.width = 0 \/ text_area.height = 0
           THEN /\ last' = [Op("render", "skipped", "-") EXCEPT
                               !.area = area, !.n = plen]
                /\ UNCHANGED <<corner, dimensions, term_area, term_cursor,
                               arith>>
           ELSE /\ last' = [Op("render", "drawn", "-") EXCEPT
                               !.area = area, !.n = plen]
                /\ render_lines(text_area)
        /\ UNCHANGED <<text, leader, wrap, other>>

\* The caller takes the result of the completed operation.
return ==
    /\ arith # "panicked"
    /\ last # Idle
    /\ last' = Idle
    /\ UNCHANGED <<text, leader, corner, dimensions, wrap, term_area,
                   term_cursor, arith, other>>

Next ==
    \/ return
    \/ \E w \in BOOLEAN : set_wrap(w)
    \/ \E w \in 0..MaxDim, h \in 0..MaxDim : set_term_info(Rect(0, 0, w, h))
    \/ \E dir \in Dirs, size \in Sizes, count \in Counts, insert \in BOOLEAN :
          \* a count of 0 is a delta of 0 whatever the size: one size is enough
          /\ count = 0 => size = "Cell"
          /\ dirscroll(dir, size, count, insert)
    \/ \E pos \in Positions, axis \in Axes : cursorpos(pos, axis)
    \/ \E pos \in Positions, count \in Counts : linepos(pos, count)
    \/ \E t \in Docs : edit_text(t)
    \/ \E c \in LegalCursors(text) : edit_motion(c)
    \/ edit_rejected
    \/ reset_text
    \/ \E w \in 0..MaxDim, h \in 0..MaxDim, plen \in 0..MaxPrompt :
          render(Rect(0, 0, w, h), plen)

Spec == Init /\ [][Next]_vars

(* --------------------------- duplicated views -------------------------- *)
\* Window::dup keeping the terminal area and the terminal cursor of the view
\* it duplicates.
dup_keepsterm(c) ==
    /\ Running
    /\ ~other.live
    /\ c \in LegalCursors(text)
    /\ other' = View(TRUE, c, corner, dimensions, wrap, term_area, term_cursor)
    /\ last' = Op("dup", "-", "-")
    /\ UNCHANGED <<text, leader, corner, dimensions, wrap, term_area,
                   term_cursor, arith>>

\* Window::dup: a second view on the same buffer, with a cursor group of its
\* own whose leader the buffer places at c, a copy of the viewport context and
\* the default terminal state.
dup(c) ==
    /\ Running
    /\ ~other.live
    /\ c \in LegalCursors(text)
    /\ other' = View(TRUE, c, corner, dimensions, wrap, Rect(0, 0, 0, 0),
                     [y |-> 0, x |-> 0])
    /\ last' = Op("dup", "-", "-")
    /\ UNCHANGED <<text, leader, corner, dimensions, wrap, term_area,
                   term_cursor, arith>>

\* The host turns to the other of the two views: the operations that follow
\* are called on it.
focus ==
    /\ Running
    /\ other.live
    /\ leader' = other.leader
    /\ corner' = other.corner
    /\ dimensions' = other.dimensions
    /\ wrap' = other.wrap
    /\ term_area' = other.term_area
    /\ term_cursor' = other.term_cursor
    /\ other' = View(TRUE, leader, corner, dimensions, wrap, term_area,
                     term_cursor)
    /\ last' = Op("focus", "-", "-")
    /\ UNCHANGED <<text, arith>>

\* A view over a two-line document that has been rendered once, in wrap
\* mode, into a 1x1 area.
InitDup ==
    /\ text = <<2, 2>>
    /\ leader = Cursor(0, 0)
    /\ corner = Cursor(0, 0)
    /\ dimensions = [width |-> 1, height |-> 1]
    /\ wrap = TRUE
    /\ term_area = Rect(0, 0, 1, 1)
    /\ term_cursor = [y |-> 0, x |-> 0]
    /\ arith = "ok"
    /\ other = NoView
    /\ last = Idle

\* The operations on two views of one buffer, with few arguments each.
NextDup ==
    \/ return
    \/ \E c \in LegalCursors(text) : dup(c)
    \/ focus
    \/ \E w \in BOOLEAN : set_wrap(w)
    \/ \E d \in 1..MaxDim : set_term_info(Rect(0, 0, d, d))
    \/ \E dir \in Dirs : dirscroll(dir, "Cell", 1, FALSE)
    \/ \E pos \in Positions, axis \in Axes : cursorpos(pos, axis)
    \/ \E pos \in Positions : linepos(pos, UsizeMax)
    \/ \E t \in {<<2, 2>>, <<0>>} : edit_text(t)
    \/ \E c \in LegalCursors(text) : edit_motion(c)

SpecDup == InitDup /\ [][NextDup]_vars

(* --------------------------- the corner clamp -------------------------- *)
ShiftLines == 4

\* A call of shift_corner(viewctx, cursor, width, height) with the leader for
\* its cursor: the clamp on its own, as dirscroll, cursorpos and the renders
\* call it.
shift_corner_call(width, height) ==
    /\ Running
    /\ \E out \in Outcomes(shift_corner_ovf(wrap, corner, leader,
                                              width, height)) :
          /\ arith' = out
          /\ corner' = IF out = "panicked"
                       THEN shift_corner_partial(wrap, corner, leader,
                                                 width, height)
                       ELSE shift_corner(wrap, corner, leader, width, height)
    /\ last' = [Op("shift_corner", "-", "-") EXCEPT
                   !.area = Rect(0, 0, width, height)]
    /\ UNCHANGED <<text, leader, dimensions, wrap, term_area, term_cursor,
                   other>>

\* A view over a document of ShiftLines full lines, its leader and its corner
\* anywhere on the document.
InitShift ==
    /\ text = [i \in 1..ShiftLines |-> MaxLen]
    /\ leader \in LegalCursors(text)
    /\ corner \in [y : 0..ShiftLines - 1, x : 0..MaxLen]
    /\ dimensions = [width |-> 0, height |-> 0]
    /\ wrap \in BOOLEAN
    /\ term_area = Rect(0, 0, 0, 0)
    /\ term_cursor = [y |-> 0, x |-> 0]
    /\ arith = "ok"
    /\ other = NoView
    /\ last = Idle

NextShift ==
    \/ return
    \/ \E w \in BOOLEAN : set_wrap(w)
    \/ \E c \in LegalCursors(text) : edit_motion(c)
    \/ \E w \in 0..MaxDim, h \in 0..MaxDim : shift_corner_call(w, h)

SpecShift == InitShift /\ [][NextShift]_vars

(* ------------------------ highlighting one row ------------------------- *)
MaxOrigin == 1

\* The rows a layout may hand to _highlight_line: any line of the document
\* from any first column (the corner's, without wrap) to any end.
HlRows(t) ==
    {Row(line, start, end, FALSE) :
        line \in 0..LastLine(t), start \in 0..MaxLen, end \in 0..MaxLen}

\* A call of _highlight_line for a row drawn at screen column x of screen
\* row 0, with selection sel for the group's only selection.  The result
\* records the row and the selection (in ret), the shape, whether an area
\* was styled and the area.
highlight_line_call(row, x, sel) ==
    LET end == highlight_line(row, sel)
        hl == highlight_area(row, sel)
    IN  /\ Running
        /\ row.end <= LineLen(text, row.line)
        /\ \E out \in (CASE end = "fits" -> {"ok"}
                         [] end = "panics" -> {"panicked"}
                         [] end = "checked" -> {"ok", "panicked"}) :
              /\ arith' = out
              /\ last' = [Op("highlight_line", sel.shape,
                             IF out = "ok" /\ hl.styled THEN "styled"
                             ELSE "none") EXCEPT
                            !.n = x,
                            !.ret = <<row.line, row.start, row.end,
                                      IF sel.live THEN 1 ELSE 0,
                                      sel.sb.y, sel.sb.x, sel.se.y, sel.se.x>>,
                            !.area = IF out = "ok" /\ hl.styled
                                     THEN Rect(x + hl.off, 0, hl.width, 1)
                                     ELSE Rect(0, 0, 0, 0)]
        /\ UNCHANGED <<text, leader, corner, dimensions, wrap, term_area,
                       term_cursor, other>>

\* A view over any document with its leader anywhere on it.
InitHighlight ==
    /\ text \in Docs
    /\ leader \in LegalCursors(text)
    /\ corner = Cursor(0, 0)
    /\ dimensions = [width |-> 0, height |-> 0]
    /\ wrap = TRUE
    /\ term_area = Rect(0, 0, 0, 0)
    /\ term_cursor = [y |-> 0, x |-> 0]
    /\ arith = "ok"
    /\ other = NoView
    /\ last = Idle

NextHighlight ==
    \/ return
    \/ \E row \in HlRows(text), x \in 0..MaxOrigin,
          sel \in Selections(text, leader) : highlight_line_call(row, x, sel)

SpecHighlight == InitHighlight /\ [][NextHighlight]_vars

(* --------------------------- rendering again --------------------------- *)
\* StatefulWidget::render called once more into the area of the render that
\* has just completed, with the same prompt and nothing called in between.
rerender ==
    LET text_area == TextArea(last.area, last.n)
    IN  /\ arith = "ok"
        /\ last.op = "render" /\ last.b = "-"
        /\ IF text_area.width = 0 \/ text_area.height = 0
           THEN /\ last' = [last EXCEPT !.a = "skipped", !.b = "again"]
                /\ UNCHANGED <<corner, dimensions, term_area, term_cursor,
                               arith>>
           ELSE /\ last' = [last EXCEPT !.a = "drawn", !.b = "again"]
                /\ render_lines(text_area)
        /\ UNCHANGED <<text, leader, wrap, other>>

\* A view over any document, its leader anywhere on it and its corner
\* anywhere on or just beyond it, with or without wrap.
InitRender ==
    /\ text \in Docs
    /\ leader \in LegalCursors(text)
    /\ corner \in [y : 0..LastLine(text), x : 0..MaxLen + 1]
    /\ dimensions = [width |-> 0, height |-> 0]
    /\ wrap \in BOOLEAN
    /\ term_area = Rect(0, 0, 0, 0)
    /\ term_cursor = [y |-> 0, x |-> 0]
    /\ arith = "ok"
    /\ other = NoView
    /\ last = Idle

NextRender ==
    \/ return
    \/ \E ax \in 0..MaxOrigin, w \in 0..MaxDim, h \in 0..MaxDim :
          render(Rect(ax, 0, w, h), 0)
    \/ rerender
    \/ \E c \in LegalCursors(text) : edit_motion(c)

SpecRender == InitRender /\ [][NextRender]_vars

(* ------------------------- the buffer's lock --------------------------- *)
\* The operations of a view that reach the shared buffer, with the argument
\* that selects their path.
LockOps ==
    {<<"new", "-">>, <<"get_text", "-">>, <<"set_text", "-">>,
     <<"reset_text", "-">>, <<"get_cursor", "-">>, <<"get_lines", "-">>,
     <<"has_lines", "-">>, <<"dirscroll", "-">>,
     <<"cursorpos", "Horizontal">>, <<"cursorpos", "Vertical">>,
     <<"linepos", "-">>, <<"render", "skipped">>, <<"render", "drawn">>,
     <<"dup", "-">>}

\* One guard taken and dropped: try_read().unwrap() or try_write().unwrap()
\* up to the end of the guard's scope.
Reading == <<"try_read", "drop_read">>

Writing == <<"try_write", "drop_write">>

\* LockProgram with dirscroll reading the leader after it has taken the
\* write guard.
LockProgram_writefirst(op, arg, wrp, width) ==
    CASE op \in {"get_text", "get_cursor", "get_lines"} -> Reading
      [] op \in {"new", "set_text", "reset_text", "linepos", "dup"} -> Writing
      [] op = "has_lines" -> IF wrp /\ width = 0 THEN <<>> ELSE Reading
      [] op = "dirscroll" ->
            <<"try_write", "try_read", "drop_read", "drop_write">>
      [] op = "cursorpos" ->
            IF arg = "Horizontal" /\ wrp THEN <<>> ELSE Reading
      [] op = "render" ->
            IF arg = "skipped" THEN <<>>
            ELSE Reading \o Reading \o Reading \o Reading

\* The lock events of an operation, in the order it makes them: wrp and
\* width are the view's wrap flag and width.
LockProgram(op, arg, wrp, width) ==
    CASE op \in {"get_text", "get_cursor", "get_lines"} -> Reading
      [] op \in {"new", "set_text", "reset_text", "linepos", "dup"} -> Writing
      [] op = "has_lines" -> IF wrp /\ width = 0 THEN <<>> ELSE Reading
      [] op = "dirscroll" -> Reading \o Writing
      [] op = "cursorpos" ->
            IF arg = "Horizontal" /\ wrp THEN <<>> ELSE Reading
      [] op = "render" ->
            IF arg = "skipped" THEN <<>>
            ELSE Reading \o Reading \o Reading \o Reading

\* The lock after the first n events of a program: the read guards and the
\* write guard held.
RECURSIVE LockAfter(_, _)
LockAfter(prog, n) ==
    IF n = 0 THEN [readers |-> 0, writer |-> FALSE]
    ELSE LET held == LockAfter(prog, n - 1)
         IN  CASE prog[n] = "try_read" -> [held EXCEPT !.readers = @ + 1]
               [] prog[n] = "try_write" -> [held EXCEPT !.writer = TRUE]
               [] prog[n] = "drop_read" -> [held EXCEPT !.readers = @ - 1]
               [] prog[n] = "drop_write" -> [held EXCEPT !.writer = FALSE]

\* The program of the operation in progress, and the lock as it has left it.
Program == LockProgram(last.a, last.b, wrap, dimensions.width)

Lock == LockAfter(Program, last.n)

\* The host calls an operation on the view: it is at its first lock event.
lock_call(op, arg) ==
    /\ Running
    /\ <<op, arg>> \in LockOps
    /\ last' = Op("call", op, arg)
    /\ UNCHANGED <<text, leader, corner, dimensions, wrap, term_area,
                   term_cursor, arith, other>>

\* The operation in progress makes its next lock event.  try_read fails
\* while a write guard is held and try_write while any guard is, and the
\* unwrap of a failed try panics.
lock_event ==
    /\ arith = "ok"
    /\ last.op = "call"
    /\ last.n < Len(Program)
    /\ LET event == Program[last.n + 1]
           fails == \/ event = "try_read" /\ Lock.writer
                    \/ event = "try_write"
                          /\ (Lock.writer \/ Lock.readers > 0)
       IN  IF fails
           THEN arith' = "panicked" /\ UNCHANGED last
           ELSE arith' = arith /\ last' = [last EXCEPT !.n = @ + 1]
    /\ UNCHANGED <<text, leader, corner, dimensions, wrap, term_area,
                   term_cursor, other>>

\* The operation in progress returns; dup hands the host a second view on
\* the same buffer.
lock_return ==
    /\ arith = "ok"
    /\ last.op = "call"
    /\ last.n = Len(Program)
    /\ last' = Idle
    /\ other' = IF last.a = "dup"
                THEN View(TRUE, Cursor(0, 0), corner, dimensions, wrap,
                          Rect(0, 0, 0, 0), [y |-> 0, x |-> 0])
                ELSE other
    /\ UNCHANGED <<text, leader, corner, dimensions, wrap, term_area,
                   term_cursor, arith>>

\* One buffer, lock free, and the view new() has made over it.
InitLock ==
    /\ text \in Docs
    /\ leader = Cursor(0, 0)
    /\ corner = Cursor(0, 0)
    /\ dimensions = [width |-> 0, height |-> 0]
    /\ wrap = TRUE
    /\ term_area = Rect(0, 0, 0, 0)
    /\ term_cursor = [y |-> 0, x |-> 0]
    /\ arith = "ok"
    /\ other = NoView
    /\ last = Idle

NextLock ==
    \/ \E c \in LockOps : lock_call(c[1], c[2])
    \/ lock_event
    \/ lock_return
    \/ return
    \/ focus
    \/ \E w \in BOOLEAN : set_wrap(w)
    \/ \E w \in 0..1 : set_term_info(Rect(0, 0, w, 1))

SpecLock == InitLock /\ [][NextLock]_vars

(* ------------------------------ claims --------------------------------- *)
ScrollOps == {"dirscroll", "cursorpos", "linepos"}

\* c lies in the window [cor, cor + (width, height)).
InWindow(c, cor, width, height) ==
    /\ cor.y <= c.y /\ c.y < cor.y + height
    /\ cor.x <= c.x /\ c.x < cor.x + width

\* C1: in no-wrap mode, at the end of every scroll request (directional
\* scroll, cursor-position re-anchor, line-position jump), whatever the
\* dimensions, the leader cursor lies in [corner, corner + dimensions).
C1_CursorInWindowAfterScroll ==
    (last.op \in ScrollOps /\ ~wrap /\ arith = "ok")
        => InWindow(leader, corner, dimensions.width, dimensions.height)

\* The first column of the document that row r of a wrap layout started at
\* corner cor shows.
RowFirstColumn(r, cor) == IF r.line = cor.y THEN cor.x + r.start ELSE r.start

\* Row r of a wrap layout started at cor shows the column of cursor c: the
\* column is one of the row's, or c sits just past the end of its line and
\* the row is the line's last.
RowShowsCursor(r, cor, t, c) ==
    /\ r.line = c.y
    /\ RowFirstColumn(r, cor) <= c.x
    /\ \/ c.x < RowFirstColumn(r, cor) + (r.end - r.start)
       \/ /\ c.x = LineLen(t, c.y)
          /\ RowFirstColumn(r, cor) + (r.end - r.start) = LineLen(t, c.y)

\* C2: after every wrap-mode render into a text area of width >= 1 and
\* height >= 1, the rows drawn include the segment of the cursor's line that
\* contains the cursor's column.
C2_WrapRenderDrawsCursorRow ==
    [][(/\ last'.op = "render" /\ last'.a = "drawn"
        /\ wrap /\ arith' = "ok")
        => LET width == dimensions'.width
               height == dimensions'.height
               cor == shift_corner_wrap(leader, corner, height)
               drawn == WrapDrawn(text, leader, cor, width, height)
           IN  \E i \in 1..Len(drawn) :
                   RowShowsCursor(drawn[i], cor, text, leader)]_vars

\* The largest column any cursor may take in the document.
LastValidColumn(t) ==
    CHOOSE m \in 0..MaxLen + 1 :
        /\ \E i \in 1..Len(t) : t[i] = m
        /\ \A i \in 1..Len(t) : t[i] <= m

\* C3: in every reachable state the corner's line is at most the document's
\* last line and the corner's column at most the last valid column.
C3_CornerWithinDocument ==
    arith = "ok"
        => /\ corner.y <= LastLine(text)
           /\ corner.x <= LastValidColumn(text)

\* C4: no arithmetic of the clamping operations or of the scroll handlers
\* that call them underflows or overflows, zero dimensions included.
C4_NoArithmeticOverflow == arith = "ok"

\* C5: in wrap mode a directional scroll Left or Right changes neither the
\* corner nor the leader cursor.
C5_WrapHorizontalScrollNoop ==
    [][(/\ wrap /\ last'.op = "dirscroll" /\ last'.a \in {"Left", "Right"}
        /\ arith' = "ok")
        => (corner' = corner /\ leader' = leader)]_vars

\* The corner a directional scroll by d along its axis asks for.
ScrolledCorner(cor, dir, d) ==
    CASE dir = "Up" -> [cor EXCEPT !.y = Max(0, cor.y - d)]
      [] dir = "Down" -> [cor EXCEPT !.y = Min(UsizeMax, cor.y + d)]
      [] dir = "Left" -> [cor EXCEPT !.x = Max(0, cor.x - d)]
      [] dir = "Right" -> [cor EXCEPT !.x = Min(UsizeMax, cor.x + d)]

\* Cursor c if it lies in the window at cor, and otherwise c moved to the
\* nearest edge of that window on the axis of dir.
FollowedCursor(c, cor, dir, width, height) ==
    IF InWindow(c, cor, width, height) THEN c
    ELSE IF dir \in {"Up", "Down"}
    THEN [c EXCEPT !.y = IF c.y < cor.y THEN cor.y ELSE cor.y + height - 1]
    ELSE [c EXCEPT !.x = IF c.x < cor.x THEN cor.x ELSE cor.x + width - 1]

\* The row or column count of a directional scroll.
AxisDelta(dir, size, count, dims) ==
    IF dir \in {"Up", "Down"} THEN ScrollDelta(size, count, dims.height)
    ELSE ScrollDelta(size, count, dims.width)

\* C6: in no-wrap mode, with the leader inside the window and content under
\* the place the cursor is to follow to, a directional scroll by d moves the
\* corner by exactly d on its axis (saturating at 0) and leaves the other
\* coordinate; the leader stays if still inside the moved window and else
\* moves to the window's nearest edge on the scrolled axis.
C6_DirScrollMovesCornerAndFollows ==
    [][(/\ last'.op = "dirscroll" /\ ~wrap /\ arith' = "ok"
        /\ InWindow(leader, corner, dimensions.width, dimensions.height))
        => LET dir == last'.a
               d == AxisDelta(dir, last'.b, last'.n, dimensions)
               cor == ScrolledCorner(corner, dir, d)
               cur == FollowedCursor(leader, cor, dir, dimensions.width,
                                     dimensions.height)
           IN  Legal(text, cur, last'.insert)
                  => (corner' = cor /\ leader' = cur)]_vars

\* A state in which a scroll has moved the corner and the leader followed.
C6_Witness ==
    /\ last.op = "dirscroll" /\ last.a = "Down" /\ last.n = 1
    /\ ~wrap /\ arith = "ok"
    /\ dimensions.height = 1 /\ dimensions.width = 2
    /\ corner = Cursor(1, 0) /\ leader = Cursor(1, 1)

\* The next directional scroll (dir, size, count, insert) changes neither the
\* corner nor the leader.
ScrollFixed(dir, size, count, insert) ==
    LET end == DirScrollEnd(text, leader, corner, dimensions, wrap,
                            dir, size, count, insert)
    IN  ~end.ovf /\ end.corner = corner /\ end.leader = leader

\* C7: in no-wrap mode, after every directional scroll Right (Down) the
\* leader's column (line) is at most the last valid column (line) and the
\* corner's coordinate at most the leader's; and once the leader sits on the
\* last valid column (line) with the corner equal to it, every further scroll
\* in that direction leaves corner and leader unchanged.
C7_ScrollStopsAtContent ==
    (last.op = "dirscroll" /\ last.a \in {"Right", "Down"} /\ ~wrap
     /\ arith = "ok")
        => /\ leader.y <= LastLine(text)
           /\ leader.x <= LastCol(text, leader.y, last.insert)
           /\ IF last.a = "Right"
              THEN /\ corner.x <= leader.x
                   /\ (/\ leader.x = LastCol(text, leader.y, last.insert)
                       /\ corner.x = leader.x)
                         => \A sz \in Sizes, n \in Counts :
                              ScrollFixed("Right", sz, n, last.insert)
              ELSE /\ corner.y <= leader.y
                   /\ (leader.y = LastLine(text) /\ corner.y = leader.y)
                         => \A sz \in Sizes, n \in Counts :
                              ScrollFixed("Down", sz, n, last.insert)

\* The coordinate of c on an axis, and the viewport's extent on it.
Coord(c, axis) == IF axis = "Horizontal" THEN c.x ELSE c.y

Extent(dims, axis) == IF axis = "Horizontal" THEN dims.width ELSE dims.height

\* C8: a cursor-position re-anchor in no-wrap mode, and a Vertical one in wrap
\* mode, sets the corner coordinate on the requested axis to the cursor's
\* coordinate for Beginning, max(0, coordinate + 1 - extent/2) for Middle and
\* max(0, coordinate + 1 - extent) for End.
C8_CursorPosOffsets ==
    (last.op = "cursorpos" /\ arith = "ok" /\ (~wrap \/ last.b = "Vertical"))
        => LET c == Coord(leader, last.b)
               extent == Extent(dimensions, last.b)
           IN  Coord(corner, last.b) =
                 CASE last.a = "Beginning" -> c
                   [] last.a = "Middle" -> Max(0, c + 1 - (extent \div 2))
                   [] last.a = "End" -> Max(0, c + 1 - extent)

\* An End re-anchor that has put the corner's column strictly between 0 and
\* the cursor's column.
C8_Witness ==
    /\ last = Op("cursorpos", "End", "Horizontal") /\ arith = "ok" /\ ~wrap
    /\ dimensions.width = 2 /\ leader.x = 2 /\ corner.x = 1

\* C9: a cursor-position re-anchor never changes the leader cursor nor the
\* text; only the corner may change.
C9_CursorPosKeepsCursor ==
    [][last'.op = "cursorpos"
        => /\ leader' = leader /\ text' = text
           /\ dimensions' = dimensions /\ wrap' = wrap
           /\ term_area' = term_area /\ term_cursor' = term_cursor]_vars

\* A re-anchor that has moved the corner away from a leader that is not at
\* the origin.
C9_Witness ==
    /\ last = Op("cursorpos", "Beginning", "Vertical") /\ arith = "ok"
    /\ leader = Cursor(1, 1) /\ corner.y = 1

\* The corner a re-anchor (pos, axis) computes in the current state.
ReAnchored(pos, axis) ==
    CursorPosEnd(leader, corner, dimensions, wrap, pos, axis).corner

\* The corner a re-anchor (pos, axis) computes in the state the current step
\* leads to.
ReAnchoredNext(pos, axis) ==
    CursorPosEnd(leader', corner', dimensions', wrap', pos, axis).corner

\* The current step changes neither the leader, the dimensions nor the wrap
\* flag, so a re-anchor before it and one after it have identical arguments
\* and differ in the starting corner only.
SameReAnchorInputs ==
    /\ leader' = leader /\ dimensions' = dimensions /\ wrap' = wrap
    /\ arith' = "ok"

\* C10 as claimed: a cursor-position re-anchor invoked again with the same
\* arguments yields the same whole corner, and the corner it yields does not
\* depend on the corner it started from.
C10_ReAnchorWholeCornerPure ==
    [][/\ (last'.op = "cursorpos" /\ arith' = "ok")
            => ReAnchoredNext(last'.a, last'.b) = corner'
       /\ SameReAnchorInputs
            => \A pos \in Positions, axis \in Axes :
                 ReAnchoredNext(pos, axis) = ReAnchored(pos, axis)]_vars

\* The corners a re-anchor may start from.
Corners == [y : 0..MaxLines, x : 0..MaxLen + 1]

\* C10: a cursor-position re-anchor invoked again with the same arguments
\* yields the same corner coordinate on the requested axis, and for every
\* request that is not the wrap-mode Horizontal no-op that coordinate does not
\* depend on the corner it started from.
C10_ReAnchorAxisPure ==
    /\ (last.op = "cursorpos" /\ arith = "ok")
          => Coord(ReAnchored(last.a, last.b), last.b) = Coord(corner, last.b)
    /\ (last = Idle /\ arith = "ok")
          => \A pos \in Positions, axis \in Axes :
               (axis = "Vertical" \/ ~wrap)
                  => \A c0 \in Corners :
                       Coord(CursorPosEnd(leader, c0, dimensions, wrap,
                                          pos, axis).corner, axis)
                         = Coord(ReAnchored(pos, axis), axis)

\* A Vertical re-anchor that has left the corner's column where the clamp
\* against the cursor had put it.
C10_Witness ==
    /\ last = Op("cursorpos", "End", "Vertical") /\ arith = "ok" /\ ~wrap
    /\ dimensions = [width |-> 2, height |-> 2]
    /\ leader = Cursor(1, 2) /\ corner = Cursor(0, 1)

\* C11: a line-position jump with resolved count n on a document of L lines
\* sets the leader to (max(0, min(n, L) - 1), 0) and the corner's line to that
\* line for Beginning, max(0, line + 1 - height/2) for Middle and
\* max(0, line + 1 - height) for End; with End the corner's line is 0 for
\* every target line below the viewport height.
C11_LinePosJump ==
    (last.op = "linepos" /\ arith = "ok")
        => LET L == Len(text)
               line == Max(0, Min(last.n, L) - 1)
               height == dimensions.height
           IN  /\ leader = Cursor(line, 0)
               /\ corner.y =
                     CASE last.a = "Beginning" -> line
                       [] last.a = "Middle" -> Max(0, line + 1 - (height \div 2))
                       [] last.a = "End" -> Max(0, line + 1 - height)
               /\ (last.a = "End" /\ line < height) => corner.y = 0

\* A jump with a count beyond the document has gone to its last line and put
\* it on the only row of the viewport.
C11_Witness ==
    /\ last.op = "linepos" /\ last.a = "End" /\ last.n = UsizeMax
    /\ arith = "ok" /\ Len(text) = 2 /\ dimensions.height = 1
    /\ leader = Cursor(1, 0) /\ corner.y = 1

\* C12: a render whose text area (the area less the prompt gutter) has zero
\* width or zero height changes nothing of the view: corner, dimensions, wrap
\* flag, recorded terminal area, terminal cursor, the buffer's text and
\* cursors stay as they were, and no error is raised.
C12_ZeroAreaRenderNoop ==
    [][(/\ last'.op = "render"
        /\ \/ Max(0, last'.area.width - last'.n) = 0
           \/ last'.area.height = 0)
        => /\ corner' = corner /\ dimensions' = dimensions /\ wrap' = wrap
           /\ term_area' = term_area /\ term_cursor' = term_cursor
           /\ text' = text /\ leader' = leader /\ other' = other
           /\ arith' = "ok" /\ last'.res = "Ok"]_vars

\* A render into an area of zero width has returned, and the view still holds
\* the dimensions and the terminal area of the 2x2 render before it.
C12_Witness ==
    /\ last.op = "render" /\ last.area = Rect(0, 0, 0, 2) /\ arith = "ok"
    /\ dimensions = [width |-> 2, height |-> 2]
    /\ term_area = Rect(0, 0, 2, 2)

\* C13: after a no-wrap render into a text area of width >= 1 and
\* height >= 1, wherever edits had moved the cursor, the leader lies in
\* [corner, corner + (width, height)) for the text area's dimensions (the
\* area less the prompt gutter), and the terminal cursor recorded is
\* (text_area.x + cursor.x - corner.x, text_area.y + cursor.y - corner.y).
C13_NowrapRenderReclamps ==
    LET width == Max(0, last.area.width - last.n)
        height == last.area.height
    IN  (/\ last.op = "render" /\ width >= 1 /\ height >= 1
         /\ ~wrap /\ arith = "ok")
            => /\ dimensions = [width |-> width, height |-> height]
               /\ InWindow(leader, corner, width, height)
               /\ term_cursor =
                     [y |-> last.area.y + leader.y - corner.y,
                      x |-> last.area.x + last.n + leader.x - corner.x]

\* A no-wrap render into a 1x1 area has pulled the corner to a leader on the
\* second line, at the end of that line.
C13_Witness ==
    /\ last.op = "render" /\ last.area = Rect(0, 0, 1, 1) /\ ~wrap
    /\ arith = "ok" /\ leader = Cursor(1, 2) /\ corner = Cursor(1, 2)
    /\ term_cursor = [y |-> 0, x |-> 0]

\* C14: after dup the two views have one text and each its own cursor group
\* and viewport context: dup copies corner, dimensions and wrap flag, gives
\* the duplicate the default terminal area and terminal cursor and leaves the
\* original as it was; turning to the other view shows the same text; and a
\* scroll, a jump or a move of the leader on one view leaves the other view's
\* corner, dimensions, wrap flag and leader unchanged.
C14_DupSharesTextOnly ==
    [][/\ last'.op = "dup"
            => /\ other'.live
               /\ other'.corner = corner /\ other'.dimensions = dimensions
               /\ other'.wrap = wrap
               /\ other'.term_area = Rect(0, 0, 0, 0)
               /\ other'.term_cursor = [y |-> 0, x |-> 0]
               /\ UNCHANGED <<text, leader, corner, dimensions, wrap,
                              term_area, term_cursor>>
       /\ last'.op = "focus" => text' = text
       /\ (/\ other.live
           /\ \/ last'.op \in ScrollOps
              \/ last'.op = "edit" /\ last'.a = "motion")
            => /\ other'.corner = other.corner
               /\ other'.dimensions = other.dimensions
               /\ other'.wrap = other.wrap
               /\ other'.leader = other.leader]_vars

\* A scroll on one view has moved its corner and its leader to the second
\* line while the other view is still on the first.
C14_Witness ==
    /\ last.op = "dirscroll" /\ arith = "ok" /\ other.live
    /\ corner = Cursor(1, 0) /\ leader = Cursor(1, 0)
    /\ other.corner = Cursor(0, 0) /\ other.leader = Cursor(0, 0)
    /\ other.term_area = Rect(0, 0, 0, 0) /\ term_area = Rect(0, 0, 1, 1)

\* C15: every operation of Editable forwarded to the buffer returns the
\* buffer's result, and whether that is a success or a failure the view's
\* corner, dimensions and wrap flag are what they were before the call.
C15_EditKeepsViewport ==
    [][last'.op = "edit"
        => /\ last'.res = IF last'.a = "rejected" THEN "Err" ELSE "Ok"
           /\ corner' = corner
           /\ dimensions' = dimensions
           /\ wrap' = wrap]_vars

\* A motion has taken the leader below a one-row window, which has stayed
\* where it was.
C15_Witness ==
    /\ last.op = "edit" /\ last.a = "motion" /\ arith = "ok"
    /\ dimensions = [width |-> 1, height |-> 1]
    /\ corner = Cursor(0, 0) /\ leader = Cursor(1, 0)

\* C16: rendering is total: whatever the text, the corner, the leader and the
\* group's selection (CharWise, LineWise or BlockWise), a render whose corner
\* clamp does not overflow lays out and highlights every row without an
\* arithmetic underflow or a failed width conversion, rows shorter than
\* corner.x and empty rows included.
C16_RenderTotal ==
    [][(/\ last'.op = "render"
        /\ ~shift_corner_ovf(wrap, corner, leader,
                             Max(0, last'.area.width - last'.n),
                             last'.area.height))
        => arith' = "ok"]_vars

\* The product of a count and an extent, saturating at the largest usize.
Sat(c, extent) == IF c * extent > UsizeMax THEN UsizeMax ELSE c * extent

\* C17: for a directional scroll with resolved count c the row delta is c for
\* Cell, floor(sat(c * height) / 2) for HalfPage and sat(c * height) for Page,
\* and the column delta the same with the width, sat being the product
\* saturating at the largest representable value.
C17_ScrollDeltas ==
    last.op = "dirscroll"
        => LET c == last.n
               Delta(extent) ==
                   CASE last.b = "Cell" -> c
                     [] last.b = "HalfPage" -> Sat(c, extent) \div 2
                     [] last.b = "Page" -> Sat(c, extent)
           IN  /\ ScrollDelta(last.b, c, dimensions.height)
                     = Delta(dimensions.height)
               /\ ScrollDelta(last.b, c, dimensions.width)
                     = Delta(dimensions.width)

\* A half-page scroll down by the largest count over a height of 2, whose
\* product saturates, has taken corner and leader to the last line.
C17_Witness ==
    /\ last.op = "dirscroll" /\ last.a = "Down" /\ last.b = "HalfPage"
    /\ last.n = UsizeMax /\ dimensions.height = 2 /\ arith = "ok"
    /\ ~wrap /\ Len(text) = 2 /\ corner.y = 1 /\ leader.y = 1

\* C18: reset_text returns the text held before the call, and afterwards the
\* document is a single empty line and the leader cursor is (0,0), whatever
\* the text and the leader were.
C18_ResetText ==
    [][last'.op = "reset_text"
        => /\ last'.ret = text
           /\ text' = <<0>>
           /\ leader' = Cursor(0, 0)]_vars

\* A reset has returned a document of two lines of two characters and left a
\* single empty line, while the corner is still on the second line.
C18_Witness ==
    /\ last.op = "reset_text" /\ last.ret = <<2, 2>> /\ arith = "ok"
    /\ text = <<0>> /\ leader = Cursor(0, 0) /\ corner.y = 1

\* C19: in wrap mode a cursor-position re-anchor on the Horizontal axis
\* changes nothing, whatever the position: the corner keeps both coordinates
\* and the leader stays.
C19_WrapHorizontalReAnchorNoop ==
    [][(wrap /\ last'.op = "cursorpos" /\ last'.b = "Horizontal")
        => /\ corner' = corner
           /\ leader' = leader
           /\ arith' = arith]_vars

\* A Horizontal End re-anchor in wrap mode has left the corner at the origin
\* with the leader two columns right of a window one column wide.
C19_Witness ==
    /\ last = Op("cursorpos", "End", "Horizontal") /\ wrap /\ arith = "ok"
    /\ dimensions.width = 1 /\ leader = Cursor(0, 2) /\ corner = Cursor(0, 0)

\* C20: within a directional scroll no write to the corner happens before the
\* clamp of the cursor has completed: a scroll that stops in shift_cursor,
\* which runs ahead of the clamp, has left the corner as it was.
C20_CornerWrittenAfterClamp ==
    [][(/\ last'.op = "dirscroll" /\ arith' = "panicked"
        /\ shift_cursor_ovf(leader,
               DirMoved(corner, last'.a, wrap,
                        ScrollDelta(last'.b, last'.n, dimensions.height),
                        ScrollDelta(last'.b, last'.n, dimensions.width)),
               dimensions.width, dimensions.height))
        => corner' = corner]_vars

\* The corner coordinate nearest to cor that puts coordinate cur inside a
\* window of extent ext.
MinimalShift(cur, cor, ext) ==
    IF cur < cor THEN cur
    ELSE IF cur >= cor + ext THEN cur - ext + 1
    ELSE cor

\* C21: the no-wrap corner clamp, for width >= 1 and height >= 1, ends with
\* the cursor inside the window, moves each corner coordinate by the least
\* amount needed (to the cursor's coordinate when the cursor is before the
\* window, to the cursor's coordinate - extent + 1 when it is past it), each
\* axis on its own, and leaves the corner alone when the cursor is inside.
C21_NowrapClampMinimal ==
    [][(/\ last'.op = "shift_corner" /\ ~wrap /\ arith' = "ok"
        /\ last'.area.width >= 1 /\ last'.area.height >= 1)
        => LET width == last'.area.width
               height == last'.area.height
           IN  /\ InWindow(leader, corner', width, height)
               /\ corner'.y = MinimalShift(leader.y, corner.y, height)
               /\ corner'.x = MinimalShift(leader.x, corner.x, width)
               /\ InWindow(leader, corner, width, height)
                     => corner' = corner]_vars

\* A no-wrap clamp for a 2x2 window has left the corner one line and one
\* column before a leader on the last line, at the end of that line.
C21_Witness ==
    /\ last.op = "shift_corner" /\ last.area = Rect(0, 0, 2, 2) /\ ~wrap
    /\ arith = "ok" /\ leader = Cursor(ShiftLines - 1, MaxLen)
    /\ corner = Cursor(ShiftLines - 2, MaxLen - 1)

\* C22: the wrap corner clamp moves the corner's line exactly as the no-wrap
\* clamp does, sets the corner's column to 0 exactly when it moved the line
\* or when the cursor is on the corner's line at a column left of the
\* corner's, and leaves the column alone otherwise.
C22_WrapClamp ==
    [][(last'.op = "shift_corner" /\ wrap /\ arith' = "ok")
        => LET height == last'.area.height
               fired == \/ leader.y < corner.y
                        \/ leader.y >= corner.y + height
           IN  /\ corner'.y = MinimalShift(leader.y, corner.y, height)
               /\ corner'.y = shift_corner_nowrap(leader, corner,
                                 last'.area.width, height).y
               /\ corner'.x =
                     IF fired \/ (leader.y = corner.y /\ leader.x < corner.x)
                     THEN 0 ELSE corner.x]_vars

\* A wrap clamp for a window two rows high has moved the corner to the line
\* before a leader on the last line and reset the corner's column.
C22_Witness ==
    /\ last.op = "shift_corner" /\ last.area.height = 2 /\ wrap
    /\ arith = "ok" /\ leader = Cursor(ShiftLines - 1, MaxLen)
    /\ corner = Cursor(ShiftLines - 2, 0)

\* C23: in a wrap-mode render with width >= 1 and height >= 1, rows are
\* accumulated from the corner until at least height rows exist and the
\* cursor's segment has been produced (or lines run out), so no row is
\* accumulated once both hold; at most height rows are drawn; when more than
\* height rows were accumulated the last height of them are drawn and the
\* corner is set to the (line, column-start) of the first drawn row, and
\* otherwise the corner is left as the wrap clamp set it.
C23_WrapAccumulation ==
    [][(/\ last'.op = "render" /\ last'.a = "drawn"
        /\ wrap /\ arith' = "ok")
        => LET width == dimensions'.width
               height == dimensions'.height
               cor == shift_corner_wrap(leader, corner, height)
               wrapped == Wrapped(text, leader, cor, width, height)
               drawn == WrapDrawn(text, leader, cor, width, height)
               n == Len(wrapped)
           IN  /\ \A k \in 1..n - 1 :
                     ~(/\ k >= height
                       /\ \E i \in 1..k : wrapped[i].cursor_line)
               /\ Len(drawn) <= height
               /\ n > height
                     => /\ drawn = SubSeq(wrapped, n - height + 1, n)
                        /\ corner' = Cursor(drawn[1].line, drawn[1].start)
               /\ n <= height
                     => /\ drawn = wrapped
                        /\ corner' = cor]_vars

\* The row and the selection a call of _highlight_line was made with.
HlRow == Row(last.ret[1], last.ret[2], last.ret[3], FALSE)

HlStart == Cursor(last.ret[5], last.ret[6])

HlEnd == Cursor(last.ret[7], last.ret[8])

\* The call has styled the columns lo..hi of its row, or nothing when styles
\* is FALSE.
HlStyled(styles, lo, hi) ==
    IF styles
    THEN /\ last.b = "styled"
         /\ last.area = Rect(last.n + lo - HlRow.start, 0, hi - lo + 1, 1)
    ELSE last.b = "none"

\* v lies in the column span [start, end) of the row.
InSpan(v) == HlRow.start <= v /\ v < HlRow.end

\* The group has a selection and the row's line is one of its lines.
HlCovered ==
    last.ret[4] = 1 /\ HlStart.y <= HlRow.line /\ HlRow.line <= HlEnd.y

\* C24 as claimed: for a CharWise selection on a row with column span
\* [start_col, end_col), the left bound is the selection-start column on the
\* selection's start line and the row's left bound elsewhere, the right bound
\* the selection-end column on its end line and the row's right bound
\* elsewhere; the span between them is highlighted if and only if both lie
\* inside the row's span, and rows outside the selection's lines get none.
C24_CharWiseOwnColumns ==
    (last.op = "highlight_line" /\ last.a = "CharWise" /\ arith = "ok")
        => LET lo == IF HlRow.line = HlStart.y THEN HlStart.x
                     ELSE HlRow.start
               hi == IF HlRow.line = HlEnd.y THEN HlEnd.x
                     ELSE HlRow.end - 1
           IN  HlStyled(HlCovered /\ InSpan(lo) /\ InSpan(hi), lo, hi)

\* C24: the same with the bounds brought into the row: the left bound is the
\* larger of the selection-start column and the row's left bound on the
\* selection's start line, the right bound the smaller of the selection-end
\* column and the row's last column on its end line.
C24_CharWiseBounds ==
    (last.op = "highlight_line" /\ last.a = "CharWise" /\ arith = "ok")
        => LET lo == IF HlRow.line = HlStart.y
                     THEN Max(HlStart.x, HlRow.start)
                     ELSE HlRow.start
               hi == IF HlRow.line = HlEnd.y
                     THEN Min(HlEnd.x, Max(HlRow.end - 1, 0))
                     ELSE HlRow.end - 1
           IN  HlStyled(HlCovered /\ InSpan(lo) /\ InSpan(hi), lo, hi)

\* A CharWise selection that starts left of the row, on the row's line, has
\* been highlighted from the row's first column.
C24_Witness ==
    /\ last.op = "highlight_line" /\ last.a = "CharWise" /\ arith = "ok"
    /\ HlRow = Row(0, 1, 2, FALSE) /\ HlCovered
    /\ HlStart = Cursor(0, 0) /\ HlEnd = Cursor(0, 1)
    /\ last.b = "styled" /\ last.area = Rect(last.n, 0, 1, 1)

\* C25: for a BlockWise selection the columns highlighted on a covered row
\* are [min(start.x, end.x), max(start.x, end.x)] cut to the row's span, and a
\* highlight is emitted only when both bounds so cut lie inside the span:
\* rows that do not reach the block's left column and empty rows get none.
C25_BlockWiseBounds ==
    (last.op = "highlight_line" /\ last.a = "BlockWise" /\ arith = "ok")
        => LET lo == Max(Min(HlStart.x, HlEnd.x), HlRow.start)
               hi == Min(Max(HlStart.x, HlEnd.x), HlRow.end - 1)
           IN  /\ HlStyled(HlCovered /\ InSpan(lo) /\ InSpan(hi), lo, hi)
               /\ (HlRow.end <= Min(HlStart.x, HlEnd.x)
                    \/ HlRow.end = HlRow.start) => last.b = "none"

\* A block whose first end is right of its second has been highlighted on
\* its second line from the second end's column.
C25_Witness ==
    /\ last.op = "highlight_line" /\ last.a = "BlockWise" /\ arith = "ok"
    /\ HlRow = Row(1, 0, 2, FALSE) /\ HlCovered
    /\ HlStart = Cursor(0, 2) /\ HlEnd = Cursor(1, 0)
    /\ last.b = "styled" /\ last.area = Rect(last.n, 0, 2, 1)

\* The rows a drawn render lays out and draws: those of the layout from the
\* corner as clamped against the leader, for the dimensions it records.
RenderDrawn ==
    LET width == dimensions'.width
        height == dimensions'.height
    IN  IF wrap
        THEN WrapDrawn(text, leader, shift_corner_wrap(leader, corner, height),
                       width, height)
        ELSE NowrapDrawn(text, leader,
                         shift_corner_nowrap(leader, corner, width, height),
                         height)

\* C26: after every render that is not skipped and draws the cursor's row,
\* the terminal cursor recorded lies inside the text area (left <= x < right,
\* top <= y < bottom) and is the screen cell of the single row whose column
\* span contains the cursor's column.
C26_TermCursorInTextArea ==
    [][(/\ last'.op = "render" /\ last'.a = "drawn" /\ arith' = "ok"
        /\ \E i \in 1..Len(RenderDrawn) : RenderDrawn[i].cursor_line)
        => /\ term_area'.x <= term_cursor'.x
           /\ term_cursor'.x < term_area'.x + term_area'.width
           /\ term_area'.y <= term_cursor'.y
           /\ term_cursor'.y < term_area'.y + term_area'.height
           /\ \A i, j \in 1..Len(RenderDrawn) :
                 (RenderDrawn[i].cursor_line /\ RenderDrawn[j].cursor_line)
                    => i = j
           /\ \A i \in 1..Len(RenderDrawn) :
                 RenderDrawn[i].cursor_line
                    => term_cursor' =
                          [y |-> term_area'.y + i - 1,
                           x |-> term_area'.x + leader.x
                                    - RenderDrawn[i].start]]_vars

\* C27: every cell that selection highlighting styles during a render lies
\* inside the text area: for each styled span, its column offset plus its
\* width is at most the text area's width, with and without wrap and for
\* lines longer than the viewport.
C27_HighlightInsideTextArea ==
    [][(last'.op = "render" /\ last'.a = "drawn" /\ arith' = "ok")
        => \A sel \in Selections(text, leader) :
             \A i \in 1..Len(RenderDrawn) :
                LET hl == highlight_area(RenderDrawn[i], sel)
                IN  (hl.styled /\ highlight_line(RenderDrawn[i], sel) = "fits")
                       => hl.off + hl.width <= dimensions'.width]_vars

\* C28: no operation of a view tries to acquire the shared buffer's lock
\* while it still holds a read or a write guard on it, and every operation
\* returns with the lock free; so with one thread and no other holder no
\* acquisition fails, whatever the operations and the views they are called
\* on.
C28_NoNestedLock ==
    /\ arith = "ok"
    /\ last.op = "call"
          => /\ (/\ last.n < Len(Program)
                 /\ Program[last.n + 1] \in {"try_read", "try_write"})
                   => Lock = [readers |-> 0, writer |-> FALSE]
             /\ last.n = Len(Program)
                   => Lock = [readers |-> 0, writer |-> FALSE]

\* A directional scroll on the second of two views holds the write guard,
\* having read the leader and dropped the read guard before.
C28_Witness ==
    /\ last = [Op("call", "dirscroll", "-") EXCEPT !.n = 3]
    /\ Lock = [readers |-> 0, writer |-> TRUE]
    /\ other.live /\ arith = "ok"

\* C29: render is idempotent on the view: a second render into the same
\* area right after the first leaves the corner, the dimensions, the
\* terminal area and the terminal cursor as the first left them, with and
\* without wrap.
C29_RenderIdempotent ==
    [][(last'.op = "render" /\ last'.b = "again" /\ arith' = "ok")
        => /\ corner' = corner
           /\ dimensions' = dimensions
           /\ term_area' = term_area
           /\ term_cursor' = term_cursor]_vars

====
